---- MODULE Spec2Model ----
(***************************************************************************)
(* Model of the two exact solvers of the repository:                       *)
(*   - submission/dp_forest.py : minimum camera placement (domination) on  *)
(*     forests, three-state tree DP with reconstruction;                   *)
(*   - vertex_cover_dp.py      : minimum vertex cover by memoized DP over  *)
(*     remaining-vertex bitmasks.                                          *)
(* Python lists are sequences (index i of Python is position i+1 here),    *)
(* Python's negative indexing, IndexError, ValueError (negative shift),    *)
(* KeyError and RecursionError are modelled as error results.              *)
(***************************************************************************)
EXTENDS Integers, Sequences, FiniteSets, TLC

\* ------------------------------------------------------------------ bounds
MaxN == 4            \* largest vertex count n drawn for a call
MaxEdges == 3        \* longest edge list drawn for a call
MaxRoots == 2        \* largest preferred-root collection drawn for a call
SmallN == 2          \* largest n drawn when out-of-range ids are drawn too
SmallEdges == 2      \* longest edge list drawn when out-of-range ids are drawn too
RecursionLimit == 12 \* depth at which a nested native call raises RecursionError

\* math.inf, the "infeasible" sentinel of the tree DP
Inf == 1000000

VARIABLES
  pc,        \* position of the running call: "call", "loop", "dp", "recon", "done", "raised"
  fn,        \* which function is called
  n,         \* argument n
  edges,     \* argument edges, a sequence of pairs <<u, v>>
  roots,     \* argument roots: <<>> for None, <<S>> for a collection with element set S
  adj,       \* adjacency structure built by the call
  seen,      \* forest solver: visited vertex ids
  total,     \* forest solver: running camera count
  cameras,   \* forest solver: running camera set
  v,         \* forest solver: loop variable of "for v in range(n)"
  comps,     \* forest solver: per processed component, its vertex list, root, count,
             \* cameras, dp table, forced children, states given by recon and
             \* greatest native call depth
  trace,     \* forest solver: the active dfs/recon frames when the call raised
  memo,      \* vertex cover: lru_cache of dp, mask -> cost
  runs,      \* vertex cover: how often dp's body ran, per mask
  hits,      \* vertex cover: how often dp was answered from the cache, per mask
  choice,    \* vertex cover: decision table, mask -> chosen vertex
  best,      \* vertex cover: dp(full_mask)
  chosen,    \* vertex cover: reconstructed cover
  r,         \* vertex cover: working mask of the reconstruction
  prev,      \* vertex cover: <<>>, or <<n, edges>> of the call made before this one
  result,    \* <<>> until the call returns; then <<count>> or <<count, set>>
  error      \* "none", or the exception that ended the call

vars == <<pc, fn, n, edges, roots, adj, seen, total, cameras, v, comps, trace,
          memo, runs, hits, choice, best, chosen, r, prev, result, error>>

\* ------------------------------------------------------- Python list access
\* list[i] is defined for -len <= i < len; a negative i counts from the end.
IndexOk(i, len) == -len <= i /\ i < len

PyPos(i, len) == IF i < 0 THEN i + len + 1 ELSE i + 1

Get(list, i) == list[PyPos(i, Len(list))]

Put(list, i, val) == [list EXCEPT ![PyPos(i, Len(list))] = val]

Min2(a, b) == IF b < a THEN b ELSE a

\* The three-argument minimum with its last argument left out
Min3WithoutLast(a, b, c) == Min2(a, b)

Min3(a, b, c) == Min2(Min2(a, b), c)

\* ------------------------------------------------------------- build_adj
RECURSIVE BuildAdjFrom(_, _, _)
BuildAdjFrom(a, es, i) ==
  IF i > Len(es) THEN [err |-> "none", adj |-> a]
  ELSE LET u == es[i][1]
           w == es[i][2]
       IN IF ~IndexOk(u, Len(a)) THEN [err |-> "IndexError", adj |-> a]
          ELSE LET a1 == Put(a, u, Append(Get(a, u), w))
               IN IF ~IndexOk(w, Len(a1)) THEN [err |-> "IndexError", adj |-> a1]
                  ELSE BuildAdjFrom(Put(a1, w, Append(Get(a1, w), u)), es, i + 1)

\* range(n) is empty for n <= 0
RangeLen(k) == IF k < 0 THEN 0 ELSE k

build_adj(nn, es) == BuildAdjFrom([i \in 1..RangeLen(nn) |-> <<>>], es, 1)

\* ------------------------------------------- min_cameras_for_tree (count only)
\* dp is the list of [S0, S1, S2] rows; a row <<a, b, c>> holds dp[v][0..2].
\* dfs(v, parent) is a nested Python function that calls itself for every child:
\* `path` lists the vertices whose dfs frames are active when the call is made
\* (the call runs at native depth Len(path) + 1).  The result carries the dp
\* table as the call leaves it, or the exception it raised together with the
\* frames active at the raise.
RECURSIVE dfs(_, _, _, _, _)

\* The child loop of dfs with every neighbour that has an active frame skipped
RECURSIVE dfsLoopSkipsActive(_, _, _, _, _, _, _, _)
dfsLoopSkipsActive(a, dp, x, parent, i, base, gain, path) ==
  IF i > Len(Get(a, x))
  THEN [err  |-> "none",
        dp   |-> IF gain < Inf
                 THEN Put(dp, x, [Get(dp, x) EXCEPT ![2] = base + gain])
                 ELSE dp,
        path |-> path]
  ELSE LET c == Get(a, x)[i]
       IN IF c = parent \/ \E k \in 1..Len(path) : path[k] = c
          THEN dfsLoopSkipsActive(a, dp, x, parent, i + 1, base, gain, path)
          ELSE LET sub == dfs(a, dp, c, x, Append(path, x))
               IN IF sub.err # "none" THEN sub
                  ELSE LET row == Get(sub.dp, c)
                           m01 == Min2(row[1], row[2])
                           own == Get(sub.dp, x)
                           dp2 == Put(sub.dp, x, <<own[1] + Min3(row[1], row[2], row[3]),
                                                   own[2], own[3] + m01>>)
                       IN dfsLoopSkipsActive(a, dp2, x, parent, i + 1,
                                             base + m01, Min2(gain, row[1] - m01), path)

RECURSIVE dfsLoop(_, _, _, _, _, _, _, _)

\* dfs with S1 of a fresh vertex set to 0 instead of inf
dfsChildStateFree(a, dp, x, parent, path) ==
  IF Len(path) + 1 > RecursionLimit
  THEN [err |-> "RecursionError", dp |-> dp, path |-> path]
  ELSE IF ~IndexOk(x, Len(dp))
  THEN [err |-> "IndexError", dp |-> dp, path |-> Append(path, x)]
  ELSE dfsLoop(a, Put(dp, x, <<1, 0, 0>>), x, parent, 1, 0, Inf, path)

dfs(a, dp, x, parent, path) ==
  IF Len(path) + 1 > RecursionLimit
  THEN [err |-> "RecursionError", dp |-> dp, path |-> path]
  ELSE IF ~IndexOk(x, Len(dp))
  THEN [err |-> "IndexError", dp |-> dp, path |-> Append(path, x)]
  ELSE dfsLoop(a, Put(dp, x, <<1, Inf, 0>>), x, parent, 1, 0, Inf, path)

dfsLoop(a, dp, x, parent, i, base, gain, path) ==
  IF i > Len(Get(a, x))
  THEN [err  |-> "none",
        dp   |-> IF gain < Inf
                 THEN Put(dp, x, [Get(dp, x) EXCEPT ![2] = base + gain])
                 ELSE dp,
        path |-> path]
  ELSE LET c == Get(a, x)[i]
       IN IF c = parent THEN dfsLoop(a, dp, x, parent, i + 1, base, gain, path)
          ELSE LET sub == dfs(a, dp, c, x, Append(path, x))
               IN IF sub.err # "none" THEN sub
                  ELSE LET row == Get(sub.dp, c)
                           m02 == Min3(row[1], row[2], row[3])
                           m01 == Min2(row[1], row[2])
                           own == Get(sub.dp, x)
                           dp2 == Put(sub.dp, x, <<own[1] + m02, own[2], own[3] + m01>>)
                       IN dfsLoop(a, dp2, x, parent, i + 1,
                                  base + m01, Min2(gain, row[1] - m01), path)

\* The greatest number of frames of dfs active at once while dfs(x, parent),
\* called with `depth` frames active, runs: its own frame, and below it one
\* nested call "dfs(c, v)" for every entry c of adj[v] other than the parent
\* (lines 61-66).  recon nests its calls "recon(c, v, child_state)" over the same
\* entries (lines 160-182).  The count stops at the recursion limit.
RECURSIVE NestedCalls(_, _, _, _)
NestedCalls(a, x, parent, depth) ==
  IF depth + 1 > RecursionLimit \/ ~IndexOk(x, Len(a)) THEN depth
  ELSE LET below == {NestedCalls(a, Get(a, x)[i], x, depth + 1) :
                       i \in {j \in 1..Len(Get(a, x)) : Get(a, x)[j] # parent}}
       IN CHOOSE d \in below \cup {depth + 1} : \A e \in below \cup {depth + 1} : e <= d

ZeroTable(a) == [i \in 1..Len(a) |-> <<0, 0, 0>>]

\* min_cameras_for_tree with the root allowed to wait for a parent
MinCamerasRootMayWait(a, root) ==
  LET pass == dfs(a, ZeroTable(a), root, -1, <<>>)
  IN IF pass.err # "none"
     THEN [err |-> pass.err, count |-> 0, dp |-> pass.dp, path |-> pass.path]
     ELSE [err   |-> "none",
           count |-> Min3(Get(pass.dp, root)[1], Get(pass.dp, root)[2],
                          Get(pass.dp, root)[3]),
           dp    |-> pass.dp,
           path  |-> pass.path]

min_cameras_for_tree(a, root) ==
  LET pass == dfs(a, ZeroTable(a), root, -1, <<>>)
  IN IF pass.err # "none"
     THEN [err |-> pass.err, count |-> 0, dp |-> pass.dp, path |-> pass.path]
     ELSE [err   |-> "none",
           count |-> Min2(Get(pass.dp, root)[1], Get(pass.dp, root)[2]),
           dp    |-> pass.dp,
           path  |-> pass.path]

\* ------------------------------------- min_cameras_for_tree_with_solution
\* bc is best_child_for_state1: <<>> for None, <<c>> for child c.
RECURSIVE dfsSol(_, _, _, _, _, _), dfsSolLoop(_, _, _, _, _, _, _, _, _, _)
dfsSol(a, dp, bc, x, parent, path) ==
  IF Len(path) + 1 > RecursionLimit
  THEN [err |-> "RecursionError", dp |-> dp, bc |-> bc, path |-> path]
  ELSE IF ~IndexOk(x, Len(dp))
  THEN [err |-> "IndexError", dp |-> dp, bc |-> bc, path |-> Append(path, x)]
  ELSE dfsSolLoop(a, Put(dp, x, <<1, Inf, 0>>), bc, x, parent, 1, 0, Inf, <<>>, path)

dfsSolLoop(a, dp, bc, x, parent, i, base, gain, best_child, path) ==
  IF i > Len(Get(a, x))
  THEN IF best_child # <<>>
       THEN [err  |-> "none",
             dp   |-> Put(dp, x, [Get(dp, x) EXCEPT ![2] = base + gain]),
             bc   |-> Put(bc, x, best_child),
             path |-> path]
       ELSE [err |-> "none", dp |-> dp, bc |-> bc, path |-> path]
  ELSE LET c == Get(a, x)[i]
       IN IF c = parent
          THEN dfsSolLoop(a, dp, bc, x, parent, i + 1, base, gain, best_child, path)
          ELSE LET sub == dfsSol(a, dp, bc, c, x, Append(path, x))
               IN IF sub.err # "none" THEN sub
                  ELSE LET row == Get(sub.dp, c)
                           m02 == Min3(row[1], row[2], row[3])
                           m01 == Min2(row[1], row[2])
                           own == Get(sub.dp, x)
                           dp2 == Put(sub.dp, x, <<own[1] + m02, own[2], own[3] + m01>>)
                           child_gain == row[1] - m01
                       IN IF child_gain < gain
                          THEN dfsSolLoop(a, dp2, sub.bc, x, parent, i + 1,
                                          base + m01, child_gain, <<c>>, path)
                          ELSE dfsSolLoop(a, dp2, sub.bc, x, parent, i + 1,
                                          base + m01, gain, best_child, path)

\* argmin_state(values, allowed_states): allowed is a sequence of state indices.
\* All values are integers or inf, so "a < b - 1e-12" is a < b, and
\* "abs(a - b) <= 1e-12" is a = b for finite values and false for inf - inf (nan).
RECURSIVE ArgminFrom(_, _, _, _)
ArgminFrom(values, allowed, k, best_s) ==
  IF k > Len(allowed) THEN best_s
  ELSE LET s == allowed[k]
           best_v == values[best_s + 1]
       IN IF values[s + 1] < best_v
             \/ (values[s + 1] = best_v /\ best_v # Inf /\ s < best_s)
          THEN ArgminFrom(values, allowed, k + 1, s)
          ELSE ArgminFrom(values, allowed, k + 1, best_s)

\* argmin_state with the allowed states ignored
ArgminAnyState(values, allowed) == ArgminFrom(values, <<0, 1, 2>>, 2, 0)

argmin_state(values, allowed) == ArgminFrom(values, allowed, 2, allowed[1])

\* The child state with "waiting for the parent" never offered, also under a camera
ChildStateNeverWaits(dp, bc, x, c, state) ==
  IF state = 1 /\ Get(bc, x) # <<>> /\ c = Get(bc, x)[1] THEN 0
  ELSE argmin_state(Get(dp, c), <<0, 1>>)

\* The state recon gives child c of x, when x was given `state`:
\* any state under a camera, a self-sufficient state under a waiting vertex,
\* and under a child-dominated vertex state 0 for the forced child.
ChildState(dp, bc, x, c, state) ==
  IF state = 0 THEN argmin_state(Get(dp, c), <<0, 1, 2>>)
  ELSE IF state = 2 THEN argmin_state(Get(dp, c), <<0, 1>>)
  ELSE IF Get(bc, x) # <<>> /\ c = Get(bc, x)[1] THEN 0
  ELSE argmin_state(Get(dp, c), <<0, 1>>)

\* recon(v, parent, state): adds cameras top-down; a nested function that calls
\* itself for every child, with `path` as in dfs.  asg keeps, per vertex, the
\* `state` argument of the last recon call made for it (<<>>: none yet).
RECURSIVE recon(_, _, _, _, _, _, _, _, _), reconLoop(_, _, _, _, _, _, _, _, _, _)
recon(a, dp, bc, cams, asg, x, parent, state, path) ==
  IF Len(path) + 1 > RecursionLimit
  THEN [err |-> "RecursionError", cams |-> cams, asg |-> asg, path |-> path]
  ELSE IF ~IndexOk(x, Len(a))
  THEN [err |-> "IndexError", cams |-> cams, asg |-> asg, path |-> Append(path, x)]
  ELSE reconLoop(a, dp, bc, IF state = 0 THEN cams \cup {x} ELSE cams,
                 Put(asg, x, <<state>>), x, parent, state, 1, path)

reconLoop(a, dp, bc, cams, asg, x, parent, state, i, path) ==
  IF i > Len(Get(a, x))
  THEN [err |-> "none", cams |-> cams, asg |-> asg, path |-> path]
  ELSE LET c == Get(a, x)[i]
       IN IF c = parent
          THEN reconLoop(a, dp, bc, cams, asg, x, parent, state, i + 1, path)
          ELSE IF ~IndexOk(c, Len(dp))
          THEN [err |-> "IndexError", cams |-> cams, asg |-> asg,
                path |-> Append(path, x)]
          ELSE LET sub == recon(a, dp, bc, cams, asg, c, x,
                                ChildState(dp, bc, x, c, state), Append(path, x))
               IN IF sub.err # "none" THEN sub
                  ELSE reconLoop(a, dp, bc, sub.cams, sub.asg, x, parent, state, i + 1,
                                 path)

\* The root state with "waiting for the parent" offered to the root as well
RootStateMayWait(dp, root) == argmin_state(Get(dp, root), <<0, 1, 2>>)

\* root_state: the cheaper of S0 and S1 at the root, S0 on a tie
RootState(dp, root) == argmin_state(Get(dp, root), <<0, 1>>)

\* dfs(root, -1), then the root state, then recon(root, -1, root_state)
min_cameras_for_tree_with_solution(a, root) ==
  LET pass == dfsSol(a, ZeroTable(a), [i \in 1..Len(a) |-> <<>>], root, -1, <<>>)
  IN IF pass.err # "none"
     THEN [err |-> pass.err, count |-> 0, cams |-> {}, dp |-> pass.dp, bc |-> pass.bc,
           asg |-> <<>>, path |-> pass.path]
     ELSE LET root_state == RootState(pass.dp, root)
              back == recon(a, pass.dp, pass.bc, {}, [i \in 1..Len(a) |-> <<>>],
                            root, -1, root_state, <<>>)
          IN [err   |-> back.err,
              count |-> Min2(Get(pass.dp, root)[1], Get(pass.dp, root)[2]),
              cams  |-> back.cams,
              dp    |-> pass.dp,
              bc    |-> pass.bc,
              asg   |-> back.asg,
              path  |-> back.path]

\* ------------------------------------------------------ collect_component
\* "for nb in adj[v]: if nb not in seen: seen.add(nb); stack.append(nb)"
RECURSIVE PushUnseen(_, _, _, _)
PushUnseen(nbrs, seenS, stack, i) ==
  IF i > Len(nbrs) THEN [seen |-> seenS, stack |-> stack]
  ELSE IF nbrs[i] \in seenS THEN PushUnseen(nbrs, seenS, stack, i + 1)
  ELSE PushUnseen(nbrs, seenS \cup {nbrs[i]}, Append(stack, nbrs[i]), i + 1)

RECURSIVE CollectLoop(_, _, _, _)
CollectLoop(a, seenS, stack, comp) ==
  IF stack = <<>> THEN [err |-> "none", seen |-> seenS, comp |-> comp]
  ELSE LET x == stack[Len(stack)]
           rest == SubSeq(stack, 1, Len(stack) - 1)
       IN IF ~IndexOk(x, Len(a)) THEN [err |-> "IndexError", seen |-> seenS, comp |-> comp]
          ELSE LET pushed == PushUnseen(Get(a, x), seenS, rest, 1)
               IN CollectLoop(a, pushed.seen, pushed.stack, Append(comp, x))

\* collect_component that marks only the start vertex in the shared seen set
CollectForgetSeen(a, seenS, start) ==
  [CollectLoop(a, seenS \cup {start}, <<start>>, <<>>) EXCEPT !.seen = seenS \cup {start}]

collect_component(a, seenS, start) == CollectLoop(a, seenS \cup {start}, <<start>>, <<>>)

\* root_map: the keys inserted by "for r in roots: root_map[r] = r"
RootMap(rts) == IF rts = <<>> THEN {} ELSE rts[1]

\* next((r for r in component if r in root_map), component[0])
RECURSIVE FirstIn(_, _, _)
FirstIn(comp, keys, i) ==
  IF i > Len(comp) THEN comp[1]
  ELSE IF comp[i] \in keys THEN comp[i]
  ELSE FirstIn(comp, keys, i + 1)

\* The root taken from the end of the component list
SelectLastListed(comp, rts) == comp[Len(comp)]

SelectRoot(comp, rts) == FirstIn(comp, RootMap(rts), 1)

\* Body of "for v in range(n)" for an unseen v: the component, its root and
\* what the tree solver returned for it (`tree`).
ComponentBody(a, rts, seenS, start, withSolution) ==
  LET col == collect_component(a, seenS, start)
  IN IF col.err # "none"
     THEN [err |-> col.err, seen |-> col.seen, comp |-> col.comp, root |-> start,
           tree |-> [err |-> col.err, count |-> 0, path |-> <<>>]]
     ELSE LET root == SelectRoot(col.comp, rts)
              t == IF withSolution THEN min_cameras_for_tree_with_solution(a, root)
                   ELSE min_cameras_for_tree(a, root)
          IN [err |-> t.err, seen |-> col.seen, comp |-> col.comp, root |-> root,
              tree |-> t]

\* The whole loop "for v in range(n)" from index x on, as the functions run it.
RECURSIVE ForestLoop(_, _, _, _, _, _, _, _)
ForestLoop(a, rts, nn, x, seenS, tot, cams, withSolution) ==
  IF x >= nn THEN [err |-> "none", count |-> tot, cams |-> cams]
  ELSE IF x \in seenS THEN ForestLoop(a, rts, nn, x + 1, seenS, tot, cams, withSolution)
  ELSE LET b == ComponentBody(a, rts, seenS, x, withSolution)
       IN IF b.err # "none" THEN [err |-> b.err, count |-> tot, cams |-> cams]
          ELSE ForestLoop(a, rts, nn, x + 1, b.seen, tot + b.tree.count,
                          IF withSolution THEN cams \cup b.tree.cams ELSE cams,
                          withSolution)

min_cameras_forest_with_solution(nn, es, rts) ==
  LET built == build_adj(nn, es)
  IN IF built.err # "none" THEN [err |-> built.err, count |-> 0, cams |-> {}]
     ELSE ForestLoop(built.adj, rts, nn, 0, {}, 0, {}, TRUE)

min_cameras_forest(nn, es, rts) ==
  LET built == build_adj(nn, es)
  IN IF built.err # "none" THEN [err |-> built.err, count |-> 0, cams |-> {}]
     ELSE ForestLoop(built.adj, rts, nn, 0, {}, 0, {}, FALSE)

\* ------------------------------------------------------ integer bit masks
\* Masks are Python ints; every mask of a call that raises nothing is >= 0.
RECURSIVE BitAnd(_, _)
BitAnd(x, y) ==
  IF x = 0 \/ y = 0 THEN 0
  ELSE (x % 2) * (y % 2) + 2 * BitAnd(x \div 2, y \div 2)

RECURSIVE BitOr(_, _)
BitOr(x, y) ==
  IF x = 0 THEN y
  ELSE IF y = 0 THEN x
  ELSE (IF x % 2 = 1 \/ y % 2 = 1 THEN 1 ELSE 0) + 2 * BitOr(x \div 2, y \div 2)

\* x & ~y
BitClear(x, y) == x - BitAnd(x, y)

\* The highest set bit of x > 0
RECURSIVE HighBit(_)
HighBit(x) == IF x <= 1 THEN x ELSE 2 * HighBit(x \div 2)

\* x & -x : the lowest set bit of x > 0
RECURSIVE LowBit(_)
LowBit(x) == IF x % 2 = 1 THEN 1 ELSE 2 * LowBit(x \div 2)

\* p.bit_length() - 1 for p > 0
RECURSIVE BitIndex(_)
BitIndex(p) == IF p <= 1 THEN 0 ELSE 1 + BitIndex(p \div 2)

\* 1 << k raises ValueError for k < 0
ShiftOk(k) == k >= 0

Shl1(k) == 2 ^ k

\* ---------------------------------- solve_vertex_cover_dp: adjacency masks
\* Adjacency masks with every edge that has an id outside [0, len) dropped
RECURSIVE BuildMasksSkipBad(_, _, _)
BuildMasksSkipBad(a, es, i) ==
  IF i > Len(es) THEN [err |-> "none", adj |-> a]
  ELSE LET u == es[i][1]
           w == es[i][2]
       IN IF u < 0 \/ u >= Len(a) \/ w < 0 \/ w >= Len(a)
          THEN BuildMasksSkipBad(a, es, i + 1)
          ELSE BuildMasksSkipBad(
                 Put(Put(a, u, BitOr(Get(a, u), Shl1(w))), w,
                     BitOr(Get(Put(a, u, BitOr(Get(a, u), Shl1(w))), w), Shl1(u))),
                 es, i + 1)

\* Adjacency masks with the own bit of a self-loop never set
RECURSIVE BuildMasksDropLoops(_, _, _)
BuildMasksDropLoops(a, es, i) ==
  IF i > Len(es) THEN [err |-> "none", adj |-> a]
  ELSE LET u == es[i][1]
           w == es[i][2]
       IN IF u = w THEN BuildMasksDropLoops(a, es, i + 1)
          ELSE BuildMasksDropLoops(
                 Put(Put(a, u, BitOr(Get(a, u), Shl1(w))), w,
                     BitOr(Get(Put(a, u, BitOr(Get(a, u), Shl1(w))), w), Shl1(u))),
                 es, i + 1)

RECURSIVE BuildMasksFrom(_, _, _)
BuildMasksFrom(a, es, i) ==
  IF i > Len(es) THEN [err |-> "none", adj |-> a]
  ELSE LET u == es[i][1]
           w == es[i][2]
       IN IF u = w
          THEN IF ~IndexOk(u, Len(a)) THEN [err |-> "IndexError", adj |-> a]
               ELSE IF ~ShiftOk(u) THEN [err |-> "ValueError", adj |-> a]
               ELSE BuildMasksFrom(Put(a, u, BitOr(Get(a, u), Shl1(u))), es, i + 1)
          ELSE IF ~IndexOk(u, Len(a)) THEN [err |-> "IndexError", adj |-> a]
          ELSE IF ~ShiftOk(w) THEN [err |-> "ValueError", adj |-> a]
          ELSE LET a1 == Put(a, u, BitOr(Get(a, u), Shl1(w)))
               IN IF ~IndexOk(w, Len(a1)) THEN [err |-> "IndexError", adj |-> a1]
                  ELSE IF ~ShiftOk(u) THEN [err |-> "ValueError", adj |-> a1]
                  ELSE BuildMasksFrom(Put(a1, w, BitOr(Get(a1, w), Shl1(u))), es, i + 1)

\* "adj = [0] * n", the edge loop, then "full_mask = (1 << n) - 1"
BuildMasks(nn, es) ==
  LET built == BuildMasksFrom([i \in 1..RangeLen(nn) |-> 0], es, 1)
  IN IF built.err # "none" THEN built
     ELSE IF ~ShiftOk(nn) THEN [err |-> "ValueError", adj |-> built.adj]
     ELSE built

FullMask(nn) == Shl1(nn) - 1

\* find_any_edge_in_induced_subgraph(r_mask): <<>> for None, else <<u, v>>
RECURSIVE FindFrom(_, _, _)
FindFrom(a, r_mask, rm) ==
  IF rm = 0 THEN <<>>
  ELSE LET lsb == LowBit(rm)
           u == BitIndex(lsb)
           rest == rm - lsb
           neigh_in_r == BitAnd(Get(a, u), r_mask)
       IN IF neigh_in_r # 0
          THEN LET w == BitIndex(LowBit(neigh_in_r))
               IN IF u = w /\ BitAnd(Get(a, u), Shl1(u)) = 0
                  THEN FindFrom(a, r_mask, rest)
                  ELSE <<u, w>>
          ELSE FindFrom(a, r_mask, rest)

\* Self-loops skipped by the edge scan
RECURSIVE FindNoLoopFrom(_, _, _)
FindNoLoopFrom(a, r_mask, rm) ==
  IF rm = 0 THEN <<>>
  ELSE LET lsb == LowBit(rm)
           u == BitIndex(lsb)
           neigh_in_r == BitAnd(Get(a, u), r_mask)
       IN IF neigh_in_r # 0 /\ BitIndex(LowBit(neigh_in_r)) # u
          THEN <<u, BitIndex(LowBit(neigh_in_r))>>
          ELSE FindNoLoopFrom(a, r_mask, rm - lsb)

FindSkippingLoops(a, r_mask) == FindNoLoopFrom(a, r_mask, r_mask)

find_any_edge_in_induced_subgraph(a, r_mask) == FindFrom(a, r_mask, r_mask)

\* Finite maps (dict, lru_cache)
EmptyMap == [k \in {} |-> 0]

MapPut(f, k, val) == [x \in DOMAIN f \cup {k} |-> IF x = k THEN val ELSE f[x]]

\* The branch comparison with "<" and ">" exchanged
TakeUFlipped(u, w, cu, cv) == cu > cv \/ (cu = cv /\ u <= w)

\* "if cu < cv or (cu == cv and u <= v)": branch u is taken
TakeU(u, w, cu, cv) == cu < cv \/ (cu = cv /\ u <= w)

\* choice[r_mask] = u in both branches
PickedAlwaysU(u, w, cu, cv) == u

\* the vertex written to choice[r_mask]
Picked(u, w, cu, cv) == IF TakeU(u, w, cu, cv) THEN u ELSE w

\* The decision written only in the branch that takes u
RecordWhenUTaken(ch, r_mask, u, w, cu, cv) ==
  IF TakeU(u, w, cu, cv) THEN MapPut(ch, r_mask, u) ELSE ch

\* "choice[r_mask] = u" / "choice[r_mask] = v": the decision table after the
\* branch comparison
Record(ch, r_mask, u, w, cu, cv) == MapPut(ch, r_mask, Picked(u, w, cu, cv))

\* Bump(f, k): the counter map f with the count of k raised by one
Bump(f, k) == MapPut(f, k, IF k \in DOMAIN f THEN f[k] + 1 ELSE 1)

\* A cache that never answers
NeverCached(tbl, r_mask) == FALSE

\* lru_cache(maxsize=None): a call with an argument seen before is answered
\* from the cache and the body does not run
Cached(tbl, r_mask) == r_mask \in DOMAIN tbl.memo

\* dp(r_mask) under lru_cache: tbl.memo is the cache, tbl.choice the decision
\* table, tbl.runs counts how often the body ran for each mask and tbl.hits
\* how often the cache answered for it.
RECURSIVE dp(_, _, _)
dp(a, tbl, r_mask) ==
  IF Cached(tbl, r_mask)
  THEN [tbl |-> [tbl EXCEPT !.hits = Bump(tbl.hits, r_mask)], val |-> tbl.memo[r_mask]]
  ELSE LET ran == [tbl EXCEPT !.runs = Bump(tbl.runs, r_mask)]
           edge == find_any_edge_in_induced_subgraph(a, r_mask)
       IN IF edge = <<>>
          THEN [tbl |-> [ran EXCEPT !.memo = MapPut(ran.memo, r_mask, 0)], val |-> 0]
          ELSE LET u == edge[1]
                   w == edge[2]
                   du == dp(a, ran, BitClear(r_mask, Shl1(u)))
                   dw == dp(a, du.tbl, BitClear(r_mask, Shl1(w)))
                   cu == 1 + du.val
                   cv == 1 + dw.val
                   cost == IF TakeU(u, w, cu, cv) THEN cu ELSE cv
               IN [tbl |-> [dw.tbl EXCEPT !.choice = Record(dw.tbl.choice, r_mask,
                                                            u, w, cu, cv),
                                          !.memo = MapPut(dw.tbl.memo, r_mask, cost)],
                   val |-> cost]

EmptyTables ==
  [memo |-> EmptyMap, choice |-> EmptyMap, runs |-> EmptyMap, hits |-> EmptyMap]

\* Tables that outlive the call that filled them
KeptTables(old) == old

\* "choice = {}" and the definition of dp under a new lru_cache: both tables are
\* made anew inside every call, whatever an earlier call left
FreshTables(old) == EmptyTables

\* The reconstruction loop "while True: ..." from working mask rr on.
RECURSIVE ReplayFrom(_, _, _, _)
ReplayFrom(a, ch, rr, picked) ==
  IF find_any_edge_in_induced_subgraph(a, rr) = <<>> THEN [err |-> "none", chosen |-> picked]
  ELSE IF rr \notin DOMAIN ch THEN [err |-> "KeyError", chosen |-> picked]
  ELSE ReplayFrom(a, ch, BitClear(rr, Shl1(ch[rr])), picked \cup {ch[rr]})

solve_vertex_cover_dp(nn, es) ==
  LET built == BuildMasks(nn, es)
  IN IF built.err # "none" THEN [err |-> built.err, count |-> 0, chosen |-> {}]
     ELSE LET top == dp(built.adj, EmptyTables, FullMask(nn))
              back == ReplayFrom(built.adj, top.tbl.choice, FullMask(nn), {})
          IN [err |-> back.err, count |-> top.val, chosen |-> back.chosen]

\* is_vertex_cover(n, edges, cover)
is_vertex_cover(nn, es, cover) ==
  \A i \in 1..Len(es) : es[i][1] \in cover \/ es[i][2] \in cover

\* ------------------------------------------------------------ call inputs
Vertices(nn) == 0..(nn - 1)

SeqsUpTo(S, k) == UNION {[1..m -> S] : m \in 0..k}

UEdge(e) == {e[1], e[2]}

\* An edge list of a forest on 0..nn-1: ids in range, no self-loop, no edge
\* twice, and every non-empty set of its edges has a vertex of degree one.
IsForest(nn, es) ==
  /\ \A i \in 1..Len(es) : es[i][1] \in Vertices(nn) /\ es[i][2] \in Vertices(nn)
                           /\ es[i][1] # es[i][2]
  /\ \A i, j \in 1..Len(es) : i # j => UEdge(es[i]) # UEdge(es[j])
  /\ \A F \in SUBSET (1..Len(es)) :
       F # {} => \E x \in Vertices(nn) : Cardinality({i \in F : x \in UEdge(es[i])}) = 1

InRange(nn, es) ==
  \A i \in 1..Len(es) : es[i][1] \in Vertices(nn) /\ es[i][2] \in Vertices(nn)

\* Forest edge lists in every order, each edge written <<u, w>> with u < w
\* (build_adj appends w to adj[u] and u to adj[w], whichever way round the
\* pair is written, so the other orientation builds the same lists)
ForestEdgeLists(nn) ==
  {es \in SeqsUpTo({p \in Vertices(nn) \X Vertices(nn) : p[1] < p[2]}, MaxEdges) :
     IsForest(nn, es)}

RootChoices(nn) ==
  {<<>>} \cup {<<S>> : S \in {T \in SUBSET Vertices(nn) : Cardinality(T) <= MaxRoots}}

ForestFns == {"min_cameras_forest", "min_cameras_forest_with_solution"}

Blank ==
  /\ pc = "call"
  /\ adj = <<>>
  /\ seen = {}
  /\ total = 0
  /\ cameras = {}
  /\ v = 0
  /\ comps = <<>>
  /\ trace = <<>>
  /\ memo = EmptyMap
  /\ runs = EmptyMap
  /\ hits = EmptyMap
  /\ choice = EmptyMap
  /\ best = 0
  /\ chosen = {}
  /\ r = 0
  /\ prev = <<>>
  /\ result = <<>>
  /\ error = "none"

\* The repository's larger forest instances: star of 5, balanced binary tree
\* of 7, two paths of 3, and the mixed tree of 5
ForestTests ==
  { [n |-> 5, edges |-> <<<<0, 1>>, <<0, 2>>, <<0, 3>>, <<0, 4>>>>],
    [n |-> 7, edges |-> <<<<0, 1>>, <<0, 2>>, <<1, 3>>, <<1, 4>>, <<2, 5>>, <<2, 6>>>>],
    [n |-> 6, edges |-> <<<<0, 1>>, <<1, 2>>, <<3, 4>>, <<4, 5>>>>],
    [n |-> 5, edges |-> <<<<0, 1>>, <<1, 2>>, <<1, 3>>, <<3, 4>>>>] }

\* The arguments of a call on a forest: every forest within the bounds with
\* every root choice, and the larger instances without preferred roots
ForestArgs ==
  \/ /\ n \in 0..MaxN
     /\ edges \in ForestEdgeLists(n)
     /\ roots \in RootChoices(n)
  \/ \E t \in ForestTests :
       /\ n = t.n
       /\ edges = t.edges
       /\ roots = <<>>

\* Calls of min_cameras_forest_with_solution on forests
InitForest ==
  /\ fn = "min_cameras_forest_with_solution"
  /\ ForestArgs
  /\ Blank

\* Calls of min_cameras_forest_with_solution on forests with no preferred root
\* or a single one, and the larger instances
InitForestRooted ==
  /\ fn = "min_cameras_forest_with_solution"
  /\ \/ /\ n \in 0..MaxN
        /\ edges \in ForestEdgeLists(n)
        /\ roots \in {<<>>} \cup {<<{x}>> : x \in Vertices(n)}
     \/ \E t \in ForestTests :
          /\ n = t.n
          /\ edges = t.edges
          /\ roots = <<>>
  /\ Blank

\* Calls of min_cameras_forest on forests
InitForestCount ==
  /\ fn = "min_cameras_forest"
  /\ ForestArgs
  /\ Blank

\* Calls of either forest function on a forest's edge list with a second copy
\* of one of its edges (in either orientation) added at the end
InitForestDup ==
  /\ fn \in ForestFns
  /\ n \in 0..MaxN
  /\ edges \in {Append(es, c) : <<es, c>> \in
                  {q \in ForestEdgeLists(n) \X (Vertices(n) \X Vertices(n)) :
                     \E i \in 1..Len(q[1]) : UEdge(q[1][i]) = UEdge(q[2])}}
  /\ roots \in RootChoices(n)
  /\ Blank

\* The path 0 - 1 - ... - (nn-1), edges in order
PathEdges(nn) == [i \in 1..(nn - 1) |-> <<i - 1, i>>]

\* Calls of either forest function on a path rooted at its end 0, of every
\* length up to two more than the native recursion limit
InitForestPaths ==
  /\ fn \in ForestFns
  /\ n \in 1..(RecursionLimit + 2)
  /\ edges = PathEdges(n)
  /\ roots = <<>>
  /\ Blank

\* Edge lists of simple graphs on 0..nn-1, with or without cycles: ids in
\* range, no self-loop, no edge twice, each edge written <<u, w>> with u < w
SimpleEdgeLists(nn) ==
  {es \in SeqsUpTo({p \in Vertices(nn) \X Vertices(nn) : p[1] < p[2]}, MaxEdges) :
     \A i, j \in 1..Len(es) : i # j => es[i] # es[j]}

\* Calls of either forest function on simple graphs, forests or not
InitForestSimple ==
  /\ fn \in ForestFns
  /\ n \in 0..MaxN
  /\ edges \in SimpleEdgeLists(n)
  /\ roots = <<>>
  /\ Blank

\* Ids drawn when ids outside [0, n) are drawn too
AnyIds == (-1)..SmallN

\* Calls of either forest function on any small input, valid or not
InitForestAny ==
  /\ fn \in ForestFns
  /\ n \in (-1)..SmallN
  /\ edges \in SeqsUpTo(AnyIds \X AnyIds, SmallEdges)
  /\ roots = <<>>
  /\ Blank

\* Edge lists of graphs on 0..nn-1 (self-loops and repeated edges included),
\* each edge written <<u, w>> with u <= w
GraphEdgeLists(nn) ==
  SeqsUpTo({p \in Vertices(nn) \X Vertices(nn) : p[1] <= p[2]}, MaxEdges)

\* The repository's larger graph instances: star of 5, cycle of 5, an edge plus
\* a triangle, and the complete graph on 5 vertices
CoverTests ==
  { [n |-> 5, edges |-> <<<<0, 1>>, <<0, 2>>, <<0, 3>>, <<0, 4>>>>],
    [n |-> 5, edges |-> <<<<0, 1>>, <<1, 2>>, <<2, 3>>, <<3, 4>>, <<4, 0>>>>],
    [n |-> 5, edges |-> <<<<0, 1>>, <<2, 3>>, <<3, 4>>, <<4, 2>>>>],
    [n |-> 5, edges |-> <<<<0, 1>>, <<0, 2>>, <<0, 3>>, <<0, 4>>, <<1, 2>>,
                          <<1, 3>>, <<1, 4>>, <<2, 3>>, <<2, 4>>, <<3, 4>>>>] }

\* Calls of solve_vertex_cover_dp on graphs: every edge list within the bounds,
\* and the larger instances
InitCover ==
  /\ fn = "solve_vertex_cover_dp"
  /\ \/ /\ n \in 0..MaxN
        /\ edges \in GraphEdgeLists(n)
     \/ \E t \in CoverTests :
          /\ n = t.n
          /\ edges = t.edges
  /\ roots = <<>>
  /\ Blank

\* Calls of solve_vertex_cover_dp on any small input, valid or not
InitCoverAny ==
  /\ fn = "solve_vertex_cover_dp"
  /\ n \in (-1)..SmallN
  /\ edges \in SeqsUpTo(AnyIds \X AnyIds, SmallEdges)
  /\ roots = <<>>
  /\ Blank

\* Calls of solve_vertex_cover_dp on small graphs, the first of a sequence of
\* calls made one after another by the same program
InitCoverCalls ==
  /\ fn = "solve_vertex_cover_dp"
  /\ n \in 0..SmallN
  /\ edges \in SeqsUpTo({p \in Vertices(n) \X Vertices(n) : p[1] <= p[2]}, SmallEdges)
  /\ roots = <<>>
  /\ Blank

\* ------------------------------------------------- forest solver, by steps
vcVars == <<memo, runs, hits, choice, best, chosen, r, prev>>

forestVars == <<seen, total, cameras, v, comps, trace>>

args == <<fn, n, edges, roots>>

\* adj = build_adj(n, edges), and the locals set before the loop
BuildAdjStep ==
  /\ pc = "call"
  /\ LET built == build_adj(n, edges)
     IN /\ adj' = built.adj
        /\ error' = built.err
        /\ pc' = IF built.err # "none" THEN "raised" ELSE "loop"
  /\ UNCHANGED <<args, forestVars, vcVars, result>>

\* "if v in seen: continue"
SkipSeen ==
  /\ pc = "loop"
  /\ v < n
  /\ v \in seen
  /\ v' = v + 1
  /\ UNCHANGED <<args, pc, adj, seen, total, cameras, comps, trace, vcVars, result,
                 error>>

\* The loop body for an unseen v
ComponentStep ==
  /\ pc = "loop"
  /\ v < n
  /\ v \notin seen
  /\ \E b \in {ComponentBody(adj, roots, seen, v,
                             fn = "min_cameras_forest_with_solution")} :
       IF b.err # "none"
       THEN /\ pc' = "raised"
            /\ error' = b.err
            /\ trace' = b.tree.path
            /\ UNCHANGED <<seen, total, cameras, v, comps>>
       ELSE /\ seen' = b.seen
            /\ total' = total + b.tree.count
            /\ cameras' = IF fn = "min_cameras_forest_with_solution"
                          THEN cameras \cup b.tree.cams ELSE cameras
            /\ comps' = Append(comps, [comp |-> b.comp, root |-> b.root,
                                       count |-> b.tree.count,
                                       cams |-> IF fn = "min_cameras_forest_with_solution"
                                                THEN b.tree.cams ELSE {},
                                       dp |-> b.tree.dp,
                                       bc |-> IF fn = "min_cameras_forest_with_solution"
                                              THEN b.tree.bc ELSE <<>>,
                                       asg |-> IF fn = "min_cameras_forest_with_solution"
                                               THEN b.tree.asg ELSE <<>>,
                                       deep |-> NestedCalls(adj, b.root, -1, 0)])
            /\ v' = v + 1
            /\ UNCHANGED <<pc, error, trace>>
  /\ UNCHANGED <<args, adj, vcVars, result>>

\* "return total" / "return total, cameras"
ReturnForest ==
  /\ pc = "loop"
  /\ v >= n
  /\ pc' = "done"
  /\ result' = IF fn = "min_cameras_forest_with_solution"
               THEN <<total, cameras>> ELSE <<total>>
  /\ UNCHANGED <<args, adj, forestVars, vcVars, error>>

NextForest == BuildAdjStep \/ SkipSeen \/ ComponentStep \/ ReturnForest

SpecForest == InitForest /\ [][NextForest]_vars

SpecForestCount == InitForestCount /\ [][NextForest]_vars

SpecForestRooted == InitForestRooted /\ [][NextForest]_vars

SpecForestDup == InitForestDup /\ [][NextForest]_vars

SpecForestAny == InitForestAny /\ [][NextForest]_vars

SpecForestPaths == InitForestPaths /\ [][NextForest]_vars

SpecForestSimple == InitForestSimple /\ [][NextForest]_vars

\* ------------------------------------------- vertex cover solver, by steps
\* The adjacency masks and full_mask
CoverBuildStep ==
  /\ pc = "call"
  /\ LET built == BuildMasks(n, edges)
     IN /\ adj' = built.adj
        /\ error' = built.err
        /\ pc' = IF built.err # "none" THEN "raised" ELSE "dp"
  /\ UNCHANGED <<args, forestVars, vcVars, result>>

\* "choice = {}", "def dp" under lru_cache, "best = dp(full_mask)", then
\* "chosen = set(); r = full_mask"
CoverDpStep ==
  /\ pc = "dp"
  /\ LET top == dp(adj, FreshTables([memo |-> memo, choice |-> choice,
                                      runs |-> runs, hits |-> hits]), FullMask(n))
     IN /\ memo' = top.tbl.memo
        /\ runs' = top.tbl.runs
        /\ hits' = top.tbl.hits
        /\ choice' = top.tbl.choice
        /\ best' = top.val
  /\ chosen' = {}
  /\ r' = FullMask(n)
  /\ pc' = "recon"
  /\ UNCHANGED <<args, adj, forestVars, prev, result, error>>

\* One turn of the reconstruction loop that does not break
CoverReconStep ==
  /\ pc = "recon"
  /\ find_any_edge_in_induced_subgraph(adj, r) # <<>>
  /\ IF r \notin DOMAIN choice
     THEN /\ pc' = "raised"
          /\ error' = "KeyError"
          /\ UNCHANGED <<chosen, r>>
     ELSE /\ chosen' = chosen \cup {choice[r]}
          /\ r' = BitClear(r, Shl1(choice[r]))
          /\ UNCHANGED <<pc, error>>
  /\ UNCHANGED <<args, adj, forestVars, memo, runs, hits, choice, best, prev, result>>

\* "break", then "return best, chosen"
CoverReturn ==
  /\ pc = "recon"
  /\ find_any_edge_in_induced_subgraph(adj, r) = <<>>
  /\ pc' = "done"
  /\ result' = <<best, chosen>>
  /\ UNCHANGED <<args, adj, forestVars, vcVars, error>>

NextCover == CoverBuildStep \/ CoverDpStep \/ CoverReconStep \/ CoverReturn

SpecCover == InitCover /\ [][NextCover]_vars

SpecCoverAny == InitCoverAny /\ [][NextCover]_vars

\* The caller's loop "for test in test_instances: solve_vertex_cover_dp(...)":
\* after a call returned, the next call starts on another graph.  The locals of
\* the new call are unset; the tables hold what the former call left in them
\* until the new call makes its own.
CoverCallAgain ==
  /\ pc = "done"
  /\ n' \in 0..SmallN
  /\ edges' \in SeqsUpTo({p \in Vertices(n') \X Vertices(n') : p[1] <= p[2]}, SmallEdges)
  /\ pc' = "call"
  /\ adj' = <<>>
  /\ best' = 0
  /\ chosen' = {}
  /\ r' = 0
  /\ prev' = <<n, edges>>
  /\ result' = <<>>
  /\ UNCHANGED <<fn, roots, forestVars, memo, runs, hits, choice, error>>

NextCoverCalls == NextCover \/ CoverCallAgain

SpecCoverCalls == InitCoverCalls /\ [][NextCoverCalls]_vars

\* ===================================================== checked properties
\* Reference notions, taken from the graph and not from the solvers
Adjacent(es, x, y) == \E i \in 1..Len(es) : es[i] = <<x, y>> \/ es[i] = <<y, x>>

Dominates(nn, es, C) ==
  \A x \in Vertices(nn) : x \in C \/ \E y \in C : Adjacent(es, x, y)

Covers(es, C) == \A i \in 1..Len(es) : es[i][1] \in C \/ es[i][2] \in C

MinSize(sets) == CHOOSE k \in {Cardinality(S) : S \in sets} :
                   \A S \in sets : Cardinality(S) >= k

\* brute force over all vertex subsets
MinDominating(nn, es) == MinSize({C \in SUBSET Vertices(nn) : Dominates(nn, es, C)})

MinCover(nn, es) == MinSize({C \in SUBSET Vertices(nn) : Covers(es, C)})

RECURSIVE Closure(_, _)
Closure(es, S) ==
  LET T == S \cup {y \in UNION {UEdge(es[i]) : i \in 1..Len(es)} :
                     \E x \in S : Adjacent(es, x, y)}
  IN IF T = S THEN S ELSE Closure(es, T)

TrueComponents(nn, es) == {Closure(es, {x}) : x \in Vertices(nn)}

Range(seq) == {seq[i] : i \in 1..Len(seq)}

RECURSIVE SumCounts(_, _)
SumCounts(log, i) == IF i > Len(log) THEN 0 ELSE log[i] + SumCounts(log, i + 1)

Returned == pc = "done"

\* C1: on every forest, with any preferred roots, the call returns and the
\* returned camera set dominates the graph: every vertex is a camera or has a
\* neighbour that is one.
C1_Domination ==
  /\ pc # "raised"
  /\ Returned => /\ result[2] \subseteq Vertices(n)
                 /\ Dominates(n, edges, result[2])

\* C1 witness: a returned call on a tree of four vertices with a preferred root
\* other than 0, where some vertex has no camera and is covered by a neighbour.
C1_Witness ==
  /\ Returned
  /\ n = 4 /\ Len(edges) = 3
  /\ roots # <<>> /\ roots[1] # {} /\ 0 \notin roots[1]
  /\ \E x \in Vertices(n) : x \notin result[2]
  /\ Dominates(n, edges, result[2])

\* C2: on every graph with ids in [0, n), self-loops and repeated edges
\* included, the call returns and the returned set passes is_vertex_cover.
C2_Cover ==
  /\ pc # "raised"
  /\ Returned => is_vertex_cover(n, edges, result[2])

\* C2 witness: a returned call on a graph with a cycle of three vertices and on a
\* graph with a self-loop.
C2_Witness ==
  /\ Returned
  /\ \/ /\ n >= 3
        /\ \E x, y, z \in Vertices(n) :
             x < y /\ y < z /\ Adjacent(edges, x, y) /\ Adjacent(edges, y, z)
             /\ Adjacent(edges, x, z)
     \/ \E i \in 1..Len(edges) : edges[i][1] = edges[i][2]
  /\ result[2] # {}
  /\ is_vertex_cover(n, edges, result[2])

\* C3: on every graph with ids in [0, n), the returned count is the size of a
\* smallest vertex cover, found by trying every vertex subset.
C3_CoverOptimal == Returned => result[1] = MinCover(n, edges)

\* C3 witness: the cycle of 5 vertices returns count 3.
C3_Witness ==
  /\ Returned
  /\ n = 5
  /\ edges = <<<<0, 1>>, <<1, 2>>, <<2, 3>>, <<3, 4>>, <<4, 0>>>>
  /\ result[1] = 3

C5_CountIsSetSize == Returned => result[1] = Cardinality(result[2])

\* C5 witness: a returned call whose root was realised in the child-dominated
\* state (no camera at the root, a camera at its forced child).
C5_Witness ==
  /\ Returned
  /\ fn = "min_cameras_forest_with_solution"
  /\ \E i \in 1..Len(comps) :
       /\ Len(comps[i].comp) >= 3
       /\ comps[i].root \notin result[2]
  /\ result[1] = Cardinality(result[2])
  /\ result[1] >= 2

\* C6: on every graph the reconstructed set has as many vertices as the
\* memoized optimum of the full mask, which is the returned count.
C6_CoverCountIsSetSize ==
  Returned => /\ result[1] = memo[FullMask(n)]
              /\ Cardinality(result[2]) = memo[FullMask(n)]

\* C6 witness: a returned call whose reconstruction removed two vertices.
C6_Witness ==
  /\ Returned
  /\ fn = "solve_vertex_cover_dp"
  /\ Cardinality(chosen) = 2
  /\ FullMask(n) \in DOMAIN memo
  /\ memo[FullMask(n)] = 2

\* C7: on every forest the components the solver processed are exactly the
\* connected components of the graph; the returned total is the sum of the tree
\* solver's counts for them; the returned set is the union of the tree solver's
\* sets for them; and each such set lies inside its own component.
C7_Additivity ==
  Returned =>
    /\ {Range(comps[i].comp) : i \in 1..Len(comps)} = TrueComponents(n, edges)
    /\ Len(comps) = Cardinality(TrueComponents(n, edges))
    /\ \A i \in 1..Len(comps) :
         /\ comps[i].root \in Range(comps[i].comp)
         /\ min_cameras_for_tree_with_solution(adj, comps[i].root).cams
              \subseteq Range(comps[i].comp)
    /\ result[1] = SumCounts(
         [i \in 1..Len(comps) |->
            min_cameras_for_tree_with_solution(adj, comps[i].root).count], 1)
    /\ result[2] = UNION {min_cameras_for_tree_with_solution(adj, comps[i].root).cams :
                            i \in 1..Len(comps)}

\* C7 witness: a returned call on a forest of two components with an edge each.
C7_Witness ==
  /\ Returned
  /\ Len(comps) = 2
  /\ \A i \in 1..Len(comps) : Len(comps[i].comp) = 2
  /\ result[1] = 2
  /\ Cardinality(result[2]) = 2

\* An input the interface excludes: n negative, or an edge id outside [0, n)
InvalidInput == n < 0 \/ ~InRange(n, edges)

\* C8: the forest solver fails with an error and returns nothing whenever n is
\* negative or an edge has an id outside [0, n).
C8_ForestRejectsInvalid ==
  InvalidInput => /\ pc # "done"
                  /\ result = <<>>

\* C9: solve_vertex_cover_dp fails with an error and returns nothing whenever n
\* is negative or an edge has an id outside [0, n).
C9_CoverRejectsInvalid ==
  InvalidInput => /\ pc \in {"call", "raised"}
                  /\ pc = "raised" => error \in {"IndexError", "ValueError"}
                  /\ result = <<>>

\* C9 witness: a call with n >= 1 and an edge that has the id -1 and an id in
\* range has raised ValueError (the negative shift count), and a call with an id
\* equal to n has raised IndexError.
C9_Witness ==
  /\ pc = "raised"
  /\ n >= 1
  /\ \/ /\ error = "ValueError"
        /\ \E i \in 1..Len(edges) : -1 \in UEdge(edges[i]) /\ 0 \in UEdge(edges[i])
     \/ /\ error = "IndexError"
        /\ \E i \in 1..Len(edges) : n \in UEdge(edges[i]) /\ 0 \in UEdge(edges[i])

\* The edge list without its last entry
Front(es) == SubSeq(es, 1, Len(es) - 1)

\* C10: a second copy of an edge of a forest, added to the edge list, changes
\* neither the count min_cameras_forest returns nor the (count, set) that
\* min_cameras_forest_with_solution returns.
C10_DuplicateIdempotent ==
  /\ pc # "raised"
  /\ Returned =>
       IF fn = "min_cameras_forest"
       THEN result = <<min_cameras_forest(n, Front(edges), roots).count>>
       ELSE result = <<min_cameras_forest_with_solution(n, Front(edges), roots).count,
                       min_cameras_forest_with_solution(n, Front(edges), roots).cams>>

\* The vertices that have a self-loop (u, u) in the input edge list
SelfLoopVertices(es) == {es[i][1] : i \in {j \in 1..Len(es) : es[j][1] = es[j][2]}}

\* C11: every vertex with a self-loop in the input is in the cover the call
\* returns, and the returned count counts it: the count is the size of the
\* returned set and of no set without those vertices.
C11_SelfLoopsInCover ==
  /\ pc # "raised"
  /\ Returned => /\ SelfLoopVertices(edges) \subseteq result[2]
                 /\ result[1] = Cardinality(result[2])
                 /\ result[1] >= Cardinality(SelfLoopVertices(edges))

\* C11 witness: a returned call on a graph where a vertex has a self-loop and an
\* edge to another vertex that the cover does not need.
C11_Witness ==
  /\ Returned
  /\ \E u \in SelfLoopVertices(edges) :
       /\ u \in result[2]
       /\ \E w \in Vertices(n) : w # u /\ Adjacent(edges, u, w) /\ w \notin result[2]

\* The smallest element of a non-empty set of integers
SetMin(S) == CHOOSE x \in S : \A y \in S : x <= y

\* C12: when preferred roots are given, the root used for a component that
\* holds at least one preferred root is the smallest-indexed preferred root in
\* it, whatever the order in which the traversal listed the component.
C12_SmallestPreferredRoot ==
  Returned =>
    \A i \in 1..Len(comps) :
      RootMap(roots) \cap Range(comps[i].comp) # {} =>
        comps[i].root = SetMin(RootMap(roots) \cap Range(comps[i].comp))

\* C13: the memo and the decision table belong to one call.  In any sequence of
\* calls on different graphs, each call returns the (count, set) it returns as
\* the first and only call, and its tables hold only masks of its own graph
\* computed by its own run.
C13_CallsIndependent ==
  /\ pc # "raised"
  /\ pc \in {"recon", "done"} =>
       /\ DOMAIN memo = DOMAIN runs
       /\ \A m \in DOMAIN memo : m <= FullMask(n) /\ runs[m] = 1
       /\ best = solve_vertex_cover_dp(n, edges).count
  /\ Returned => result = <<solve_vertex_cover_dp(n, edges).count,
                            solve_vertex_cover_dp(n, edges).chosen>>

\* C13 witness: a call on the edgeless graph on two vertices returned the
\* empty cover, after a call on the two vertices joined by an edge, whose
\* tables held cost 1 for the same full mask.
C13_Witness ==
  /\ Returned
  /\ prev = <<2, <<<<0, 1>>>>>>
  /\ n = 2 /\ edges = <<>>
  /\ result = <<0, {}>>
  /\ memo[FullMask(n)] = 0

\* The edges of es that do not touch x
EdgesAvoiding(es, x) ==
  LET keep(e) == x \notin UEdge(e) IN SelectSeq(es, keep)

\* The children of x in the tree of es rooted at root: the neighbours of x from
\* which the root cannot be reached without passing x
TreeChildren(es, root, x) ==
  {y \in UNION {UEdge(es[i]) : i \in 1..Len(es)} :
     /\ y # x
     /\ Adjacent(es, x, y)
     /\ root \notin Closure(EdgesAvoiding(es, x), {y})}

RECURSIVE SumOver(_, _)
SumOver(f, S) ==
  IF S = {} THEN 0
  ELSE LET x == CHOOSE y \in S : TRUE IN f[x] + SumOver(f, S \ {x})

\* The three-state recurrence at vertex x with children ch, read from table tbl
RecurrenceAt(tbl, x, ch) ==
  LET row(c) == tbl[c + 1]
      any == [c \in ch |-> SetMin({row(c)[1], row(c)[2], row(c)[3]})]
      self == [c \in ch |-> SetMin({row(c)[1], row(c)[2]})]
      base == SumOver(self, ch)
  IN /\ row(x)[1] = 1 + SumOver(any, ch)
     /\ row(x)[3] = base
     /\ row(x)[2] = IF ch = {} THEN Inf
                    ELSE base + SetMin({row(c)[1] - self[c] : c \in ch})

\* C14: after the cost pass on a tree every vertex of it satisfies the
\* three-state recurrence over its children (S0 = 1 + sum of min(S0,S1,S2),
\* S2 = sum of min(S0,S1), S1 = S2 + least gain, S1 infeasible and S0 = 1,
\* S2 = 0 at a leaf), in the table of the solution-returning solver and in the
\* table of the count-only solver alike.
C14_Recurrence ==
  Returned =>
    \A i \in 1..Len(comps) :
      /\ comps[i].dp = min_cameras_for_tree(adj, comps[i].root).dp
      /\ \A x \in Range(comps[i].comp) :
           RecurrenceAt(comps[i].dp, x, TreeChildren(edges, comps[i].root, x))

\* C14 witness: a returned call on a tree whose root has a child with two
\* leaf children (so the table holds the leaf rows, the row <<1, 2, 2>> over
\* them, and the root's row above that one).
C14_Witness ==
  /\ Returned
  /\ \E i \in 1..Len(comps) :
       \E x \in Range(comps[i].comp) :
         /\ x \in TreeChildren(edges, comps[i].root, comps[i].root)
         /\ Cardinality(TreeChildren(edges, comps[i].root, x)) = 2
         /\ comps[i].dp[x + 1] = <<1, 2, 2>>
         /\ \E c \in TreeChildren(edges, comps[i].root, x) :
              comps[i].dp[c + 1] = <<1, Inf, 0>>
         /\ RecurrenceAt(comps[i].dp, comps[i].root,
                         TreeChildren(edges, comps[i].root, comps[i].root))

\* S0(c) - min(S0(c), S1(c)) read from table tbl
GainOf(tbl, c) == tbl[c + 1][1] - SetMin({tbl[c + 1][1], tbl[c + 1][2]})

\* C15: for every vertex with at least one child, the forced child recorded by
\* the cost pass achieves the least gain among the children, and among the
\* children that achieve it, it is the one with the smallest vertex id,
\* whatever the order of the edges in the input.
C15_ForcedChildSmallestId ==
  Returned =>
    \A i \in 1..Len(comps) :
      \A x \in Range(comps[i].comp) :
        LET ch == TreeChildren(edges, comps[i].root, x)
            least == SetMin({GainOf(comps[i].dp, c) : c \in ch})
        IN ch # {} =>
             comps[i].bc[x + 1] =
               <<SetMin({c \in ch : GainOf(comps[i].dp, c) = least})>>

\* The vertices whose bit is set in mask R
MaskSet(nn, R) == {x \in Vertices(nn) : (R \div (2 ^ x)) % 2 = 1}

\* The neighbours of u inside R, u itself included when it has a self-loop
NeighboursIn(nn, es, R, u) == {y \in MaskSet(nn, R) : Adjacent(es, u, y)}

\* The edge the selection rule names for R, from the input edge list: <<>> when
\* R induces no edge and no self-loop
RuleEdge(nn, es, R) ==
  LET us == {u \in MaskSet(nn, R) : NeighboursIn(nn, es, R, u) # {}}
  IN IF us = {} THEN <<>>
     ELSE <<SetMin(us), SetMin(NeighboursIn(nn, es, R, SetMin(us)))>>

\* The state in which "best = dp(full_mask)" has just filled the tables
DpJustRan == pc = "recon" /\ r = FullMask(n) /\ chosen = {}

\* C16: when the DP has run, for every remaining-vertex mask R the edge selected
\* for branching is
\* (u, v) with u the lowest-indexed vertex of R that has a neighbour in R and v
\* the lowest-indexed neighbour of u in R (v = u for a self-loop); when R
\* induces no edge and no self-loop the selection reports none and the answer
\* stored for R is 0; and the vertex recorded for a mask that was branched on
\* is an endpoint of that edge.
C16_EdgeSelection ==
  DpJustRan =>
    \A R \in 0..FullMask(n) :
      LET rule == RuleEdge(n, edges, R)
      IN /\ find_any_edge_in_induced_subgraph(adj, R) = rule
         /\ R \in DOMAIN memo /\ rule = <<>> =>
              memo[R] = 0 /\ R \notin DOMAIN choice
         /\ R \in DOMAIN memo /\ rule # <<>> =>
              /\ R \in DOMAIN choice
              /\ choice[R] \in {rule[1], rule[2]}
              /\ memo[R] >= 1

\* C16 witness: a call whose DP has run and branched on a mask whose lowest vertex has
\* no neighbour in the mask, so that u is a later vertex, the edge being either
\* (u, v) with v not the vertex after u or a self-loop (u, u); and that stored 0
\* for a non-empty mask that induces no edge.
C16_Witness ==
  /\ DpJustRan
  /\ \/ \E R \in DOMAIN choice :
          /\ RuleEdge(n, edges, R)[1] # SetMin(MaskSet(n, R))
          /\ RuleEdge(n, edges, R)[2] # RuleEdge(n, edges, R)[1] + 1
          /\ find_any_edge_in_induced_subgraph(adj, R) = RuleEdge(n, edges, R)
     \/ \E R \in DOMAIN choice :
          /\ RuleEdge(n, edges, R)[1] = RuleEdge(n, edges, R)[2]
          /\ RuleEdge(n, edges, R)[1] # SetMin(MaskSet(n, R))
          /\ find_any_edge_in_induced_subgraph(adj, R) = RuleEdge(n, edges, R)
  /\ \E R \in DOMAIN memo : R # 0 /\ RuleEdge(n, edges, R) = <<>> /\ memo[R] = 0

\* C17: within one call the cost of each mask is computed at most once: the
\* body of dp ran exactly once for every mask that has a stored cost, however
\* often the mask was requested (every further request was answered from the
\* cache), and the decision table holds entries only for masks whose body ran,
\* each written by that single run.
C17_ComputedOnce ==
  pc \in {"recon", "done"} =>
    /\ DOMAIN runs = DOMAIN memo
    /\ \A R \in DOMAIN runs : runs[R] = 1
    /\ DOMAIN hits \subseteq DOMAIN memo
    /\ DOMAIN choice \subseteq DOMAIN runs

\* C17 witness: a returned call in which some mask was requested three times or
\* more (reached by several branch histories) and its body ran once.
C17_Witness ==
  /\ Returned
  /\ \E R \in DOMAIN hits :
       /\ hits[R] >= 2
       /\ runs[R] = 1
       /\ R \in DOMAIN choice

\* C18: the tree DP makes no native recursive call: on every path rooted at an
\* end, whatever its length, the solver returns, and neither the cost pass nor
\* the reconstruction ever has more than one of its own frames active.
C18_NoNativeRecursion ==
  /\ pc # "raised"
  /\ \A i \in 1..Len(comps) : comps[i].deep <= 1

\* C19: without preferred roots, the components are found in increasing order
\* of their smallest vertex id, the iterative traversal puts every vertex in
\* exactly one component (once), each component is a connected component of the
\* graph, and the root used for a component is its smallest vertex id.
C19_DiscoveryOrderAndRoot ==
  /\ pc # "raised"
  /\ Returned /\ RootMap(roots) = {} =>
       /\ \A i \in 1..Len(comps) :
            /\ comps[i].root = SetMin(Range(comps[i].comp))
            /\ Len(comps[i].comp) = Cardinality(Range(comps[i].comp))
            /\ Range(comps[i].comp) \in TrueComponents(n, edges)
       /\ \A i, j \in 1..Len(comps) :
            i < j => SetMin(Range(comps[i].comp)) < SetMin(Range(comps[j].comp))
       /\ \A x \in Vertices(n) :
            Cardinality({i \in 1..Len(comps) : x \in Range(comps[i].comp)}) = 1

\* C19 witness: a returned call without preferred roots on a forest of two
\* components, the second of three or more vertices that the traversal listed
\* out of id order, rooted at its smallest id.
C19_Witness ==
  /\ Returned
  /\ roots = <<>>
  /\ fn = "min_cameras_forest"
  /\ Len(comps) = 2
  /\ Len(comps[2].comp) >= 3
  /\ \E k \in 1..(Len(comps[2].comp) - 1) : comps[2].comp[k] > comps[2].comp[k + 1]
  /\ comps[2].root = SetMin(Range(comps[2].comp))
  /\ comps[1].root < comps[2].root

\* C20: on a simple graph with a component that contains a cycle (of length 3
\* or more: there are no self-loops and no repeated edges), the call never
\* finishes normally with a result; and when the call has raised, the graph
\* has such a cycle, the exception is the recursion limit, and the frames
\* active at the raise hold some vertex twice: the cost pass re-entered a
\* vertex that was already on the active path.
C20_CycleNeverFinishes ==
  /\ ~IsForest(n, edges) => pc # "done" /\ result = <<>>
  /\ pc = "raised" =>
       /\ ~IsForest(n, edges)
       /\ error = "RecursionError"
       /\ \E i, j \in 1..Len(trace) : i < j /\ trace[i] = trace[j]

\* C20 witness: the call on the triangle 0-1-2-0 has raised, the active frames
\* going round the triangle.
C20_Witness ==
  /\ pc = "raised"
  /\ n = 3
  /\ {UEdge(edges[i]) : i \in 1..Len(edges)} = {{0, 1}, {1, 2}, {0, 2}}
  /\ error = "RecursionError"
  /\ Len(trace) >= 4
  /\ trace[1] = 0
  /\ trace[4] = 0
  /\ {trace[2], trace[3]} = {1, 2}

\* C21: during the reconstruction the working mask holds exactly the vertices
\* not yet chosen; whenever it still contains an uncovered edge it has an entry
\* in the decision table, written by the cost computation, and the recorded
\* vertex is in the mask and not yet chosen.  So the lookup never fails, every
\* step removes a new vertex, and at most n steps are made.
C21_ReplayDefined ==
  /\ pc # "raised"
  /\ pc \in {"recon", "done"} =>
       /\ MaskSet(n, r) = Vertices(n) \ chosen
       /\ chosen \subseteq Vertices(n)
       /\ Cardinality(chosen) <= n
  /\ pc = "recon" /\ find_any_edge_in_induced_subgraph(adj, r) # <<>> =>
       /\ r \in DOMAIN choice
       /\ r \in DOMAIN memo
       /\ choice[r] \in MaskSet(n, r)
       /\ choice[r] \notin chosen

\* C21 witness: a reconstruction that has made two steps and still has an
\* uncovered edge in its working mask, whose recorded vertex is the higher
\* endpoint of the selected edge.
C21_Witness ==
  /\ pc = "recon"
  /\ Cardinality(chosen) = 2
  /\ find_any_edge_in_induced_subgraph(adj, r) # <<>>
  /\ r \in DOMAIN choice
  /\ choice[r] = find_any_edge_in_induced_subgraph(adj, r)[2]
  /\ choice[r] # find_any_edge_in_induced_subgraph(adj, r)[1]

\* C22: on every forest with every preferred-root collection, the count
\* min_cameras_forest returns is the count min_cameras_forest_with_solution
\* returns for the same arguments, and it does not depend on the roots: it is
\* the count returned without preferred roots, and for every component, both
\* tree solvers give the component's count from every vertex of it as root
\* (the tree solvers see only the adjacency lists and the root, so this last
\* part is evaluated once per forest, in the call without preferred roots).
C22_CountsAgree ==
  /\ pc # "raised"
  /\ Returned =>
       /\ result[1] = min_cameras_forest_with_solution(n, edges, roots).count
       /\ min_cameras_forest_with_solution(n, edges, roots).err = "none"
       /\ result[1] = min_cameras_forest(n, edges, <<>>).count
       /\ roots = <<>> =>
            \A i \in 1..Len(comps) :
              \A x \in Range(comps[i].comp) :
                /\ min_cameras_for_tree(adj, x).count = comps[i].count
                /\ min_cameras_for_tree_with_solution(adj, x).count = comps[i].count

\* C22 witness: min_cameras_forest returned for a tree of four vertices rooted
\* at a preferred root that is a leaf other than vertex 0, with the count the
\* other solver gives.
C22_Witness ==
  /\ Returned
  /\ fn = "min_cameras_forest"
  /\ n = 4
  /\ Len(comps) = 1
  /\ roots # <<>>
  /\ comps[1].root # 0
  /\ Len(adj[comps[1].root + 1]) = 1
  /\ result[1] = min_cameras_forest_with_solution(n, edges, roots).count
  /\ result[1] = 2

\* The state recon gave vertex x in the component logged as rec
StateOf(rec, x) == rec.asg[x + 1][1]

\* C23: in the reconstruction on any tree every vertex of the tree is given a
\* state that is feasible (finite cost) and consistent with its neighbours: the
\* root is never given S2, a vertex is given S2 only if its parent was given S0,
\* a vertex given S1 has a child that was given S0 (so no leaf is given S1),
\* and the cameras returned are the vertices given S0.
C23_StatesConsistent ==
  Returned =>
    \A i \in 1..Len(comps) :
      LET rec == comps[i]
          kids(x) == TreeChildren(edges, rec.root, x)
      IN /\ \A x \in Range(rec.comp) :
              /\ rec.asg[x + 1] # <<>>
              /\ StateOf(rec, x) \in {0, 1, 2}
              /\ rec.dp[x + 1][StateOf(rec, x) + 1] < Inf
              /\ StateOf(rec, x) = 1 => \E c \in kids(x) : StateOf(rec, c) = 0
              /\ kids(x) = {} => StateOf(rec, x) # 1
              /\ \A c \in kids(x) : StateOf(rec, c) = 2 => StateOf(rec, x) = 0
         /\ StateOf(rec, rec.root) # 2
         /\ rec.cams = {x \in Range(rec.comp) : StateOf(rec, x) = 0}

\* C23 witness: a returned call on a tree in which the reconstruction gave all
\* three states: a vertex waiting under a camera, and a vertex without a camera
\* dominated by a child.
C23_Witness ==
  /\ Returned
  /\ \E i \in 1..Len(comps) :
       /\ \E x \in Range(comps[i].comp) : StateOf(comps[i], x) = 1
       /\ \E x \in Range(comps[i].comp) : StateOf(comps[i], x) = 2
       /\ \E x \in Range(comps[i].comp) : StateOf(comps[i], x) = 0

====
